---- MODULE Spec2Model ----
(***************************************************************************)
(* Model of tartufo's command line entry point, src/tartufo/cli.py `main`. *)
(*                                                                         *)
(* One run of `main` is a sequential process.  Its position is `pc`; each  *)
(* action below is one statement group of the function, in source order.   *)
(* The collaborators that live outside cli.py (config, scanner, util) are  *)
(* modelled by the set of results they can hand back.                      *)
(*                                                                         *)
(* Options that main only passes through to the scanner and never looks    *)
(* at (json, since_commit, max_depth, branch, rules, default_regexes) are   *)
(* not part of the state.                                                  *)
(***************************************************************************)
EXTENDS Integers, Sequences, FiniteSets, TLC

VARIABLES
    regex_opt,        \* how --regex/--no-regex was given on the command line
    kwargs,           \* the parsed options main receives
    pc,               \* position in main
    rules_regexes,    \* local of main (line 70)
    path_inclusions,  \* local of main (line 82)
    path_exclusions,  \* local of main (line 83)
    scan_call,        \* the scanner entry point call made, with its arguments
    output,           \* local of main (lines 94/105)
    events,           \* everything the run did that is visible outside main, in order
    trail,            \* the validation steps executed so far and how each ended
    exit_status,      \* process exit status, -1 while running
    src,              \* pattern source text (pattern compilation on its own)
    compiled          \* what pattern compilation made of src

vars == <<regex_opt, kwargs, pc, rules_regexes, path_inclusions, path_exclusions,
          scan_call, output, events, trail, exit_status, src, compiled>>

----------------------------------------------------------------------------
(* Bounds *)

MaxFileLen == 3

MaxRules == 1

----------------------------------------------------------------------------
(* Values *)

None == "None"

NotPassed == "<not passed>"

\* Characters a pattern source is made of: a literal, a character that makes
\* an unbalanced group, the comment marker, whitespace, the line terminator.
Chars == {"a", "(", "#", " ", "\n"}

RECURSIVE FilesOfLen(_)
FilesOfLen(n) ==
    IF n = 0 THEN {<<>>}
    ELSE {Append(f, c) : f \in FilesOfLen(n - 1), c \in Chars}

Files == UNION {FilesOfLen(n) : n \in 0..MaxFileLen}

RuleNames == 1..MaxRules

----------------------------------------------------------------------------
(* The command line: click's option declarations, lines 15-51 *)

\* --regex/--no-regex is declared with default=True (line 26).
RegexDefault == TRUE

RegexOpts == {"--regex", "--no-regex", "absent"}

RegexValue(opt) == IF opt = "absent" THEN RegexDefault ELSE opt = "--regex"

\* include_paths / exclude_paths are None or an open file (click.File("r")).
Kwargs(opt) ==
    [entropy       : BOOLEAN,
     regex         : {RegexValue(opt)},
     pre_commit    : BOOLEAN,
     repo_path     : {None, "/repo"},
     git_url       : {None, "https://host/repo.git"},
     cleanup       : BOOLEAN,
     include_paths : {None, "file"},
     exclude_paths : {None, "file"}]

----------------------------------------------------------------------------
(* Collaborators outside cli.py, by the results they can return *)

\* config.configure_regexes_from_args: a rule set (possibly empty), or ValueError.
ConfigErrorMessages == {"rules file is not a JSON object"}

ConfigResults ==
    {[kind |-> "ok", rules |-> rs, msg |-> ""] : rs \in SUBSET RuleNames}
    \cup {[kind |-> "ValueError", rules |-> {}, msg |-> m] : m \in ConfigErrorMessages}

\* scanner.find_strings / scanner.find_staged: a dict, or an exception.
NoOutput == [state |-> "none", found_issues |-> "absent", issues_path |-> "absent"]

ScannerResults ==
    {[state |-> "returned", found_issues |-> f, issues_path |-> p] :
        f \in {"absent", "false", "true"}, p \in {"absent", "", "/tmp/issues"}}
    \cup {[state |-> "raised", found_issues |-> "absent", issues_path |-> "absent"]}

\* util.clean_outputs: removes the temporary artifacts, never an error.
CleanOutputsEvents == <<[op |-> "clean_outputs", arg |-> "output"]>>

----------------------------------------------------------------------------
(* Messages *)

MsgNoAnalysis == "No analysis requested."

MsgNoSource == "You must specify one of --pre-commit, --repo-path, or git_url."

MsgNoRegexes == "Regex checks requested, but no regexes found."

MsgResultsSaved == "Results have been saved in {}"

Ev(op, arg) == [op |-> op, arg |-> arg]

\* err = partial(click.secho, fg="red", bold=True, err=True)
err(msg) == Ev("err", msg)

----------------------------------------------------------------------------
(* Conditions of main *)

\* line 63
NoAnalysisRequested(kw) == ~(kw.entropy \/ kw.regex)

\* line 66 with the tuple of line 63 pasted in
NoSourceSpecified_Pasted(kw) == ~(kw.entropy \/ kw.regex)

\* line 66
NoSourceSpecified(kw) ==
    ~(kw.pre_commit \/ kw.repo_path # None \/ kw.git_url # None)

\* lines 74-76 reporting the error only when the rules are going to be used
RulesLoadFailed_OnlyWithRegex(kw, res) == kw.regex /\ res.kind = "ValueError"

\* lines 69-76: the except clause catches ValueError
RulesLoadFailed(kw, res) == res.kind = "ValueError"

\* line 77 without the test of the regex flag
NoRegexesFound_AnyMode(kw, rules) == rules = {}

\* line 77
NoRegexesFound(kw, rules) == kw.regex /\ rules = {}

\* line 93 falling back to a history scan when a URL is given
UseStaged_UnlessUrl(kw) == kw.pre_commit /\ kw.git_url = None

\* line 93
UseStaged(kw) == kw.pre_commit

\* line 120 cleaning up only what the run cloned itself
CleanupRequested_ClonesOnly(kw) == kw.cleanup /\ kw.repo_path = None

\* line 120
CleanupRequested(kw) == kw.cleanup

\* lines 123-124: issues_path = output.get("issues_path", None); if issues_path
ResultsMessageDue(out) == out.issues_path \notin {"absent", ""}

\* line 127 reading the wrong key of the output
ExitCode_ByIssuesPath(out) == IF out.issues_path \notin {"absent", ""} THEN 1 ELSE 0

\* lines 127-129: output.get("found_issues", False)
ExitCode(out) == IF out.found_issues = "true" THEN 1 ELSE 0

----------------------------------------------------------------------------
(* Pattern compilation, lines 84-91 *)

\* Iterating a text file yields its lines, each with its terminator, the last
\* one without if the file does not end in a newline.
RECURSIVE SplitLines(_, _)
SplitLines(text, cur) ==
    IF text = <<>> THEN (IF cur = <<>> THEN <<>> ELSE <<cur>>)
    ELSE IF Head(text) = "\n"
         THEN <<Append(cur, "\n")>> \o SplitLines(Tail(text), <<>>)
         ELSE SplitLines(Tail(text), Append(cur, Head(text)))

FileLines(text) == SplitLines(text, <<>>)

\* l[:-1]
DropLast(l) == IF l = <<>> THEN <<>> ELSE SubSeq(l, 1, Len(l) - 1)

\* str.lstrip()
RECURSIVE lstrip(_)
lstrip(s) ==
    IF s # <<>> /\ Head(s) \in {" ", "\n"} THEN lstrip(Tail(s)) ELSE s

\* set(l[:-1].lstrip() for l in f)
LineSet(text) ==
    {lstrip(DropLast(FileLines(text)[i])) : i \in 1..Len(FileLines(text))}

\* if pattern and not pattern.startswith("#")
IsPattern(p) == p # <<>> /\ Head(p) # "#"

PatternTexts(text) == {p \in LineSet(text) : IsPattern(p)}

\* re.compile raises re.error on an unbalanced group; every other text over
\* Chars is a valid expression.
ReCompileFails(p) == \E i \in 1..Len(p) : p[i] = "("

\* All orderings of a finite set: a Python set is iterated in no defined order.
RECURSIVE Orderings(_)
Orderings(S) ==
    IF S = {} THEN {<<>>}
    ELSE UNION {{<<x>> \o o : o \in Orderings(S \ {x})} : x \in S}

\* The loop over the set: re.error propagates as soon as a bad pattern is
\* met, otherwise the list holds one compiled pattern per element.
CompileOutcomes(text) ==
    IF \E p \in PatternTexts(text) : ReCompileFails(p)
    THEN {[raised |-> TRUE, patterns |-> <<>>]}
    ELSE {[raised |-> FALSE, patterns |-> o] : o \in Orderings(PatternTexts(text))}

AllCompileOutcomes == UNION {CompileOutcomes(f) : f \in Files}

----------------------------------------------------------------------------
(* State of a run *)

NoCall ==
    [fn |-> "none", git_url |-> NotPassed, repo_path |-> NotPassed,
     regex |-> FALSE, entropy |-> FALSE, custom_regexes |-> {},
     path_inclusions |-> <<>>, path_exclusions |-> <<>>]

NotCompiled == [done |-> FALSE, raised |-> FALSE, patterns |-> <<>>]

Step(name, ok) == [step |-> name, ok |-> ok]

\* An exception nobody catches: the interpreter prints the traceback and the
\* process ends with status 1.
Traceback(what) == Ev("traceback", what)

Init ==
    /\ regex_opt \in RegexOpts
    /\ kwargs \in Kwargs(regex_opt)
    /\ pc = "start"
    /\ rules_regexes = {}
    /\ path_inclusions = <<>>
    /\ path_exclusions = <<>>
    /\ scan_call = NoCall
    /\ output = NoOutput
    /\ events = <<>>
    /\ trail = <<>>
    /\ exit_status = -1
    /\ src = <<>>
    /\ compiled = NotCompiled

----------------------------------------------------------------------------
(* main, statement by statement *)

\* lines 61-62: click.echo(dir(ctx)); click.echo(kwargs)
EchoDebug ==
    /\ pc = "start"
    /\ events' = events \o <<Ev("echo", "dir(ctx)"), Ev("echo", "kwargs")>>
    /\ pc' = "check_analysis"
    /\ UNCHANGED <<regex_opt, kwargs, rules_regexes, path_inclusions,
                   path_exclusions, scan_call, output, trail, exit_status,
                   src, compiled>>

\* lines 63-65
CheckAnalysis ==
    /\ pc = "check_analysis"
    /\ trail' = Append(trail, Step("check_analysis", kwargs.entropy \/ kwargs.regex))
    /\ IF NoAnalysisRequested(kwargs)
       THEN /\ events' = Append(events, err(MsgNoAnalysis))
            /\ exit_status' = 1
            /\ pc' = "done"
       ELSE /\ pc' = "check_source"
            /\ UNCHANGED <<events, exit_status>>
    /\ UNCHANGED <<regex_opt, kwargs, rules_regexes, path_inclusions,
                   path_exclusions, scan_call, output, src, compiled>>

\* lines 66-68
CheckSource ==
    /\ pc = "check_source"
    /\ trail' = Append(trail, Step("check_source",
                   kwargs.pre_commit \/ kwargs.repo_path # None \/ kwargs.git_url # None))
    /\ IF NoSourceSpecified(kwargs)
       THEN /\ events' = Append(events, err(MsgNoSource))
            /\ exit_status' = 1
            /\ pc' = "done"
       ELSE /\ pc' = "load_rules"
            /\ UNCHANGED <<events, exit_status>>
    /\ UNCHANGED <<regex_opt, kwargs, rules_regexes, path_inclusions,
                   path_exclusions, scan_call, output, src, compiled>>

\* lines 69-76
LoadRules ==
    /\ pc = "load_rules"
    /\ \E res \in ConfigResults :
        /\ trail' = Append(trail, Step("load_rules", res.kind = "ok"))
        /\ IF RulesLoadFailed(kwargs, res)
           THEN /\ events' = events \o <<Ev("configure_regexes_from_args", res.kind),
                                         err(res.msg)>>
                /\ exit_status' = 1
                /\ pc' = "done"
                /\ UNCHANGED rules_regexes
           ELSE /\ events' = Append(events, Ev("configure_regexes_from_args", res.kind))
                /\ rules_regexes' = res.rules
                /\ pc' = "check_rules"
                /\ UNCHANGED exit_status
    /\ UNCHANGED <<regex_opt, kwargs, path_inclusions, path_exclusions,
                   scan_call, output, src, compiled>>

\* lines 77-79
CheckRules ==
    /\ pc = "check_rules"
    /\ trail' = Append(trail, Step("check_rules", ~(kwargs.regex /\ rules_regexes = {})))
    /\ IF NoRegexesFound(kwargs, rules_regexes)
       THEN /\ events' = Append(events, err(MsgNoRegexes))
            /\ exit_status' = 1
            /\ pc' = "done"
       ELSE /\ pc' = "compile_inclusions"
            /\ UNCHANGED <<events, exit_status>>
    /\ UNCHANGED <<regex_opt, kwargs, rules_regexes, path_inclusions,
                   path_exclusions, scan_call, output, src, compiled>>

\* lines 82, 84-87
CompileInclusions ==
    /\ pc = "compile_inclusions"
    /\ IF kwargs.include_paths # None
       THEN \E oc \in AllCompileOutcomes :
            /\ trail' = Append(trail, Step("compile_inclusions", ~oc.raised))
            /\ IF oc.raised
               THEN /\ events' = events \o <<Ev("read", "include_paths"),
                                             Traceback("re.error")>>
                    /\ exit_status' = 1
                    /\ pc' = "done"
                    /\ UNCHANGED path_inclusions
               ELSE /\ events' = Append(events, Ev("read", "include_paths"))
                    /\ path_inclusions' = oc.patterns
                    /\ pc' = "compile_exclusions"
                    /\ UNCHANGED exit_status
       ELSE /\ trail' = Append(trail, Step("compile_inclusions", TRUE))
            /\ pc' = "compile_exclusions"
            /\ UNCHANGED <<events, exit_status, path_inclusions>>
    /\ UNCHANGED <<regex_opt, kwargs, rules_regexes, path_exclusions,
                   scan_call, output, src, compiled>>

\* lines 83, 88-91
CompileExclusions ==
    /\ pc = "compile_exclusions"
    /\ IF kwargs.exclude_paths # None
       THEN \E oc \in AllCompileOutcomes :
            /\ trail' = Append(trail, Step("compile_exclusions", ~oc.raised))
            /\ IF oc.raised
               THEN /\ events' = events \o <<Ev("read", "exclude_paths"),
                                             Traceback("re.error")>>
                    /\ exit_status' = 1
                    /\ pc' = "done"
                    /\ UNCHANGED path_exclusions
               ELSE /\ events' = Append(events, Ev("read", "exclude_paths"))
                    /\ path_exclusions' = oc.patterns
                    /\ pc' = "scan"
                    /\ UNCHANGED exit_status
       ELSE /\ trail' = Append(trail, Step("compile_exclusions", TRUE))
            /\ pc' = "scan"
            /\ UNCHANGED <<events, exit_status, path_exclusions>>
    /\ UNCHANGED <<regex_opt, kwargs, rules_regexes, path_inclusions,
                   scan_call, output, src, compiled>>

\* lines 94-103
FindStagedCall(kw) ==
    [fn |-> "find_staged", git_url |-> NotPassed, repo_path |-> kw.repo_path,
     regex |-> kw.regex, entropy |-> kw.entropy, custom_regexes |-> rules_regexes,
     path_inclusions |-> path_inclusions, path_exclusions |-> path_exclusions]

\* lines 105-118
FindStringsCall(kw) ==
    [fn |-> "find_strings", git_url |-> kw.git_url, repo_path |-> kw.repo_path,
     regex |-> kw.regex, entropy |-> kw.entropy, custom_regexes |-> rules_regexes,
     path_inclusions |-> path_inclusions, path_exclusions |-> path_exclusions]

\* lines 93-118
Scan ==
    /\ pc = "scan"
    /\ scan_call' = IF UseStaged(kwargs) THEN FindStagedCall(kwargs)
                                         ELSE FindStringsCall(kwargs)
    /\ \E res \in ScannerResults :
        IF res.state = "raised"
        THEN /\ events' = events \o <<Ev(scan_call'.fn, res.state), Traceback("scanner")>>
             /\ exit_status' = 1
             /\ pc' = "done"
             /\ UNCHANGED output
        ELSE /\ events' = Append(events, Ev(scan_call'.fn, res.state))
             /\ output' = res
             /\ pc' = "report"
             /\ UNCHANGED exit_status
    /\ UNCHANGED <<regex_opt, kwargs, rules_regexes, path_inclusions,
                   path_exclusions, trail, src, compiled>>

\* lines 120-125
Report ==
    /\ pc = "report"
    /\ events' = IF CleanupRequested(kwargs)
                 THEN events \o CleanOutputsEvents
                 ELSE IF ResultsMessageDue(output)
                      THEN Append(events, Ev("print", MsgResultsSaved))
                      ELSE events
    /\ pc' = "exit"
    /\ UNCHANGED <<regex_opt, kwargs, rules_regexes, path_inclusions,
                   path_exclusions, scan_call, output, trail, exit_status,
                   src, compiled>>

\* lines 127-129
Exit ==
    /\ pc = "exit"
    /\ exit_status' = ExitCode(output)
    /\ pc' = "done"
    /\ UNCHANGED <<regex_opt, kwargs, rules_regexes, path_inclusions,
                   path_exclusions, scan_call, output, events, trail,
                   src, compiled>>

Next ==
    \/ EchoDebug
    \/ CheckAnalysis
    \/ CheckSource
    \/ LoadRules
    \/ CheckRules
    \/ CompileInclusions
    \/ CompileExclusions
    \/ Scan
    \/ Report
    \/ Exit

Spec == Init /\ [][Next]_vars

----------------------------------------------------------------------------
(* Pattern compilation on its own: every source text up to MaxFileLen *)

InitPatterns ==
    /\ regex_opt = "absent"
    /\ kwargs \in {kw \in Kwargs(regex_opt) :
                     /\ kw.entropy /\ ~kw.pre_commit /\ ~kw.cleanup
                     /\ kw.repo_path # None /\ kw.git_url = None
                     /\ kw.include_paths # None /\ kw.exclude_paths = None}
    /\ pc = "patterns"
    /\ rules_regexes = {}
    /\ path_inclusions = <<>>
    /\ path_exclusions = <<>>
    /\ scan_call = NoCall
    /\ output = NoOutput
    /\ events = <<>>
    /\ trail = <<>>
    /\ exit_status = -1
    /\ src \in Files
    /\ compiled = NotCompiled

\* lines 85-87 applied to src
CompilePatternSource ==
    /\ pc = "patterns"
    /\ ~compiled.done
    /\ \E oc \in CompileOutcomes(src) :
        compiled' = [done |-> TRUE, raised |-> oc.raised, patterns |-> oc.patterns]
    /\ UNCHANGED <<regex_opt, kwargs, pc, rules_regexes, path_inclusions,
                   path_exclusions, scan_call, output, events, trail,
                   exit_status, src>>

NextPatterns == CompilePatternSource

PatternSpec == InitPatterns /\ [][NextPatterns]_vars

----------------------------------------------------------------------------
(* Vocabulary of the properties *)

StepOrder ==
    <<"check_analysis", "check_source", "load_rules", "check_rules",
      "compile_inclusions", "compile_exclusions">>

SomeStepFailed == \E i \in 1..Len(trail) : ~trail[i].ok

RulesLoaded == Len(trail) >= 3 /\ trail[3].ok

ScannerFns == {"find_staged", "find_strings"}

ScannerEvents == {i \in 1..Len(events) : events[i].op \in ScannerFns}

ErrorReports == {i \in 1..Len(events) : events[i].op \in {"err", "traceback"}}

ErrMessages == {events[i].arg : i \in {j \in 1..Len(events) : events[j].op = "err"}}

Happened(op) == \E i \in 1..Len(events) : events[i].op = op

\* Every validation step has run and none failed, stated on the inputs.
ValidationPassed ==
    /\ kwargs.entropy \/ kwargs.regex
    /\ kwargs.pre_commit \/ kwargs.repo_path # None \/ kwargs.git_url # None
    /\ Len(trail) = Len(StepOrder)
    /\ \A i \in 1..Len(trail) : trail[i].ok
    /\ kwargs.regex => rules_regexes # {}
    /\ \A i \in 1..Len(path_inclusions) : ~ReCompileFails(path_inclusions[i])
    /\ \A i \in 1..Len(path_exclusions) : ~ReCompileFails(path_exclusions[i])

----------------------------------------------------------------------------
(* Properties *)

\* C1: a scanner entry point is invoked only after all validation succeeded
\* (a detector enabled, a source set, rules loaded without ValueError, rules
\* non-empty if regex is enabled, all patterns compiled); a failed step means
\* no scanner entry point is ever called.
C1_ScanOnlyWhenValidated ==
    /\ (scan_call # NoCall \/ ScannerEvents # {}) => ValidationPassed
    /\ SomeStepFailed => (scan_call = NoCall /\ ScannerEvents = {})

C1_Witness ==
    /\ scan_call.fn = "find_strings"
    /\ kwargs.regex
    /\ scan_call.path_inclusions # <<>>
    /\ scan_call.path_exclusions # <<>>

\* C2 (as stated): with entropy and regex both disabled the run ends with
\* status 1 having done nothing but emit the error message: no rules loaded,
\* no pattern source read, no scanner called, nothing else written.
C2_NothingButTheError ==
    (pc = "done" /\ ~kwargs.entropy /\ ~kwargs.regex) =>
        /\ exit_status = 1
        /\ events = <<err(MsgNoAnalysis)>>

\* C3: regex enabled and the loaded rule set empty: the run fails with status
\* 1 and calls no scanner, entropy enabled or not; with regex disabled an
\* empty rule set is not a failure.
C3_EmptyRules ==
    /\ (kwargs.regex /\ RulesLoaded /\ rules_regexes = {}) =>
          /\ scan_call = NoCall
          /\ pc \in {"check_rules", "done"}
          /\ pc = "done" => (exit_status = 1 /\ MsgNoRegexes \in ErrMessages)
    /\ ~kwargs.regex =>
          /\ MsgNoRegexes \notin ErrMessages
          /\ Len(trail) >= 4 => trail[4].ok
          /\ (RulesLoaded /\ rules_regexes = {} /\ pc = "done" /\ ~SomeStepFailed)
                => scan_call # NoCall

C3_Witness ==
    /\ kwargs.regex /\ kwargs.entropy
    /\ RulesLoaded /\ rules_regexes = {}
    /\ pc = "done" /\ exit_status = 1

\* C4: the exit status is 0 exactly when validation passed, the scanner
\* returned normally and found_issues is absent or false; otherwise it is
\* non-zero.  No status is set before the run ends.
C4_ExitStatus ==
    /\ pc # "done" => exit_status = -1
    /\ pc = "done" =>
          /\ exit_status \in {0, 1}
          /\ exit_status = 0 <=>
                /\ ValidationPassed
                /\ output.state = "returned"
                /\ output.found_issues \in {"absent", "false"}

C4_Witness ==
    /\ pc = "done" /\ exit_status = 0
    /\ output.found_issues = "absent"
    /\ output.issues_path = "/tmp/issues"

\* What the pattern-source contract asks for: the content of each line,
\* without its terminator.
LineContent(l) == IF l # <<>> /\ l[Len(l)] = "\n" THEN DropLast(l) ELSE l

IsBlank(c) == \A i \in 1..Len(c) : c[i] = " "

ExpectedPatterns(text) ==
    {c \in {LineContent(FileLines(text)[i]) : i \in 1..Len(FileLines(text))} :
        ~IsBlank(c) /\ c[1] # "#"}

\* C5 (as stated): the compiled list holds exactly one pattern per distinct
\* line that is non-blank and does not begin with '#', its text the line
\* without the terminator (last line with or without a newline), none twice.
C5_OnePatternPerLine ==
    (compiled.done /\ ~compiled.raised) =>
        /\ {compiled.patterns[i] : i \in 1..Len(compiled.patterns)} = ExpectedPatterns(src)
        /\ Len(compiled.patterns) = Cardinality(ExpectedPatterns(src))

\* C6 (as stated): every failure kind of main emits a message through the
\* error reporter before the run ends, and different kinds emit different
\* messages.
C6_EveryFailureReported ==
    /\ (pc = "done" /\ SomeStepFailed) => ErrMessages # {}
    /\ Cardinality({MsgNoAnalysis, MsgNoSource, MsgNoRegexes} \cup ConfigErrorMessages)
          = 3 + Cardinality(ConfigErrorMessages)

\* C7: a run that passes validation calls exactly one scanner entry point,
\* once: find_staged iff pre_commit, else find_strings.  pre_commit alone
\* satisfies the source check, and find_staged is never given git_url.
C7_ModeSelection ==
    /\ Cardinality(ScannerEvents) <= 1
    /\ (ValidationPassed /\ pc \in {"report", "exit", "done"}) =>
          Cardinality(ScannerEvents) = 1
    /\ \A i \in ScannerEvents :
          /\ events[i].op = scan_call.fn
          /\ events[i].op = "find_staged" <=> kwargs.pre_commit
    /\ scan_call # NoCall =>
          /\ scan_call.fn = "find_staged" <=> kwargs.pre_commit
          /\ scan_call.fn = "find_strings" <=> ~kwargs.pre_commit
          /\ scan_call.fn = "find_staged" => scan_call.git_url = NotPassed
          /\ ScannerEvents # {}
    /\ kwargs.pre_commit => MsgNoSource \notin ErrMessages

C7_Witness ==
    /\ kwargs.pre_commit
    /\ kwargs.git_url = None /\ kwargs.repo_path = None
    /\ scan_call.fn = "find_staged"
    /\ pc = "done"

\* C8 (as stated): with neither --regex nor --no-regex given, the regex flag
\* handed to the scanner is false and the empty-rule-set check never fires.
C8_RegexOffByDefault ==
    regex_opt = "absent" =>
        /\ scan_call # NoCall => ~scan_call.regex
        /\ MsgNoRegexes \notin ErrMessages

\* C9: once the scanner has returned, clean_outputs is called iff cleanup
\* was requested and the results message is printed iff cleanup was not
\* requested and issues_path is non-empty, both before the exit status is
\* set; the status depends only on found_issues; a validation failure never
\* reaches clean_outputs.
C9_CleanupAndReport ==
    /\ (output.state = "returned" /\ pc \in {"exit", "done"}) =>
          /\ Happened("clean_outputs") <=> kwargs.cleanup
          /\ Happened("print") <=>
                (~kwargs.cleanup /\ output.issues_path \notin {"absent", ""})
    /\ (Happened("clean_outputs") \/ Happened("print")) => output.state = "returned"
    /\ pc \in {"report", "exit"} => exit_status = -1
    /\ (output.state = "returned" /\ pc = "done") =>
          exit_status = (IF output.found_issues = "true" THEN 1 ELSE 0)
    /\ SomeStepFailed => ~Happened("clean_outputs")

C9_Witness ==
    /\ pc = "done"
    /\ kwargs.cleanup /\ Happened("clean_outputs")
    /\ output.issues_path = "/tmp/issues"
    /\ output.found_issues = "true" /\ exit_status = 1

\* The report a failing validation step leaves behind.
StepReports(i) ==
    CASE i = 1 -> {err(MsgNoAnalysis)}
      [] i = 2 -> {err(MsgNoSource)}
      [] i = 3 -> {err(m) : m \in ConfigErrorMessages}
      [] i = 4 -> {err(MsgNoRegexes)}
      [] OTHER -> {Traceback("re.error")}

\* C10: validation runs in the order detector selection, source selection,
\* rules loading, empty-rule-set check, inclusion patterns, exclusion
\* patterns, and stops at the first failing step: at most one error report,
\* that of this step, and no later step runs.  Rules are loaded whenever the
\* first two checks pass, so a ValueError ends the run with status 1 also
\* when regex is disabled.
C10_FirstFailureStops ==
    /\ Len(trail) <= Len(StepOrder)
    /\ \A i \in 1..Len(trail) : trail[i].step = StepOrder[i]
    /\ Len(trail) >= 1 => trail[1].ok = (kwargs.entropy \/ kwargs.regex)
    /\ Len(trail) >= 2 =>
          trail[2].ok = (kwargs.pre_commit \/ kwargs.repo_path # None
                           \/ kwargs.git_url # None)
    /\ Len(trail) >= 3 =>
          trail[3].ok = (\A i \in 1..Len(events) :
                            events[i].op = "configure_regexes_from_args"
                               => events[i].arg = "ok")
    /\ Len(trail) >= 4 => trail[4].ok = ~(kwargs.regex /\ rules_regexes = {})
    /\ Cardinality(ErrorReports) <= 1
    /\ \A i \in 1..Len(trail) :
          ~trail[i].ok =>
             /\ i = Len(trail)
             /\ pc = "done" /\ exit_status = 1
             /\ scan_call = NoCall
             /\ \E j \in ErrorReports : events[j] \in StepReports(i)
    /\ (~SomeStepFailed /\ Len(trail) < Len(StepOrder)) =>
          pc = (IF trail = <<>> /\ events = <<>> THEN "start"
                ELSE StepOrder[Len(trail) + 1])
    /\ Happened("configure_regexes_from_args") <=> (Len(trail) >= 3)
    /\ (Len(trail) >= 2 /\ trail[1].ok /\ trail[2].ok /\ pc = "done") => Len(trail) >= 3

C10_Witness ==
    /\ ~kwargs.regex
    /\ Len(trail) = 3 /\ ~trail[3].ok
    /\ pc = "done" /\ exit_status = 1

====
